---- MODULE Spec2Model ----
(***************************************************************************)
(* ExtHostWorkspace (src/vs/workbench/api/node/extHostWorkspace.ts): the   *)
(* extension-host side projection of the workspace folders, the change     *)
(* event computed on every $acceptWorkspaceData, the folder and path       *)
(* queries, the request ids of findFiles and their cancellation, and the   *)
(* remote calls of saveAll and appyEdit.                                   *)
(*                                                                         *)
(* The _workspace field belongs to one instance and no method reads or     *)
(* writes the field of another instance, so the model carries the          *)
(* _workspace of one instance (instance 1, the receiver of                 *)
(* $acceptWorkspaceData and of the queries).  _requestIdPool is static:    *)
(* findFiles is modelled for every instance of the process.                *)
(*                                                                         *)
(* IWorkspaceData.id and .name are stored in Workspace and read by no      *)
(* method of this file; data is modelled by its roots.                     *)
(***************************************************************************)
EXTENDS Integers, Sequences, FiniteSets, TLC

\* ------------------------------------------------------------- bounds
MaxRoots == 2          \* longest root list the authority sends
MaxAccepts == 2        \* $acceptWorkspaceData calls in one run
MaxCalls == 2          \* findFiles, saveAll and appyEdit calls in one run (all instances)
MaxEdits == 2          \* text edits in one WorkspaceEdit
NumInstances == 2      \* ExtHostWorkspace instances in the process
NumTokens == 2         \* distinct cancellation tokens handed to findFiles

\* ------------------------------------------------------------- values
Null == [is |-> "null"]              \* JS null / undefined _workspace or data
Undefined == [is |-> "undefined"]    \* JS undefined as a value
NoData == [is |-> "noData"]          \* no data before the constructor's
NoEvent == [is |-> "noEvent"]        \* no change event delivered yet
NoToken == [is |-> "noToken"]        \* findFiles called without a token
NoResult == [is |-> "noResult"]      \* no query made yet
Pending == [is |-> "pending"]        \* a promise that has not settled
Resolved == [is |-> "resolved"]      \* a promise resolved by the main thread
Rejected == [is |-> "rejected"]      \* a promise rejected by the main thread
Outcomes == {Resolved, Rejected}

\* A path string: absolute or not, and its segments ("." and ".." included).
Path(abs, segs) == [abs |-> abs, segs |-> segs]
EmptyString == Path(FALSE, <<>>)
DotString == Path(FALSE, <<".">>)

\* The file URIs /a, /a/b and /b.
Uri(segs) == [scheme |-> "file", path |-> segs]
Uris == {Uri(<<"a">>), Uri(<<"a", "b">>), Uri(<<"b">>)}

\* URI.fsPath
FsPath(uri) == Path(TRUE, uri.path)

\* The code unit a segment name is ordered by.
SegCode(seg) == CASE seg = "." -> 1 [] seg = ".." -> 2 [] seg = "a" -> 3 [] seg = "b" -> 4

\* URI.toString(): the scheme prefix (code 0) followed by the path's code units
UriToString(uri) == <<0>> \o [i \in DOMAIN uri.path |-> SegCode(uri.path[i])]

\* path.basename
Basename(p) == IF p.segs = <<>> THEN "" ELSE p.segs[Len(p.segs)]

RECURSIVE SeqsUpTo(_, _)
SeqsUpTo(S, n) ==
    IF n = 0 THEN {<<>>}
    ELSE LET shorter == SeqsUpTo(S, n - 1)
         IN shorter \cup {Append(s, x) : s \in shorter, x \in S}

RootLists == SeqsUpTo(Uris, MaxRoots)

\* IWorkspaceData | null
Data == {Null} \cup {[roots |-> r] : r \in RootLists}

Range(s) == {s[i] : i \in DOMAIN s}

\* ------------------------------------------------------------- helpers of the code

\* strings.compare: -1, 0, 1 by code units, a proper prefix first
RECURSIVE Compare(_, _)
Compare(a, b) ==
    IF a = <<>> /\ b = <<>> THEN 0
    ELSE IF a = <<>> THEN -1
    ELSE IF b = <<>> THEN 1
    ELSE IF Head(a) < Head(b) THEN -1
    ELSE IF Head(a) > Head(b) THEN 1
    ELSE Compare(Tail(a), Tail(b))

\* ExtHostWorkspace._compareWorkspaceFolder
CompareWorkspaceFolder(a, b) == Compare(UriToString(a.uri), UriToString(b.uri))

\* Array.prototype.sort(_compareWorkspaceFolder): insertion of each element
\* behind the elements that are not greater (the order of equal keys is kept)
RECURSIVE Insert(_, _)
Insert(f, sorted) ==
    IF sorted = <<>> THEN <<f>>
    ELSE IF CompareWorkspaceFolder(f, Head(sorted)) < 0 THEN <<f>> \o sorted
    ELSE <<Head(sorted)>> \o Insert(f, Tail(sorted))

RECURSIVE SortFolders(_)
SortFolders(folders) ==
    IF folders = <<>> THEN <<>>
    ELSE Insert(folders[Len(folders)], SortFolders(SubSeq(folders, 1, Len(folders) - 1)))

\* arrays.delta(before, after, compare) with a missing slice: every element of
\* after is added once before is used up
RECURSIVE DeltaNoSlice(_, _, _)
DeltaNoSlice(before, after, all) ==
    IF before = <<>> THEN [added |-> all, removed |-> <<>>]
    ELSE IF after = <<>> THEN [added |-> <<>>, removed |-> before]
    ELSE LET n == CompareWorkspaceFolder(Head(before), Head(after))
         IN IF n = 0 THEN DeltaNoSlice(Tail(before), Tail(after), all)
            ELSE IF n < 0
            THEN LET r == DeltaNoSlice(Tail(before), after, all)
                 IN [added |-> r.added, removed |-> <<Head(before)>> \o r.removed]
            ELSE LET r == DeltaNoSlice(before, Tail(after), all)
                 IN [added |-> <<Head(after)>> \o r.added, removed |-> r.removed]

DeltaPushAll(before, after) == DeltaNoSlice(before, after, after)

\* arrays.delta(before, after, compare): the merge of two sorted lists
RECURSIVE Delta(_, _)
Delta(before, after) ==
    IF before = <<>> THEN [added |-> after, removed |-> <<>>]
    ELSE IF after = <<>> THEN [added |-> <<>>, removed |-> before]
    ELSE LET n == CompareWorkspaceFolder(Head(before), Head(after))
         IN IF n = 0 THEN Delta(Tail(before), Tail(after))
            ELSE IF n < 0
            THEN LET r == Delta(Tail(before), after)
                 IN [added |-> r.added, removed |-> <<Head(before)>> \o r.removed]
            ELSE LET r == Delta(before, Tail(after))
                 IN [added |-> <<Head(after)>> \o r.added, removed |-> r.removed]

\* ------------------------------------------------------------- Workspace2

\* Workspace2.constructor: roots verbatim, folders[i] = {name, uri, index}
NewWorkspace2(data) ==
    [roots |-> data.roots,
     folders |-> [i \in DOMAIN data.roots |->
                    [name |-> Basename(FsPath(data.roots[i])),
                     uri |-> data.roots[i],
                     index |-> i - 1]]]

\* Workspace2.fromData with a snapshot of no roots in place of null
FromDataNeverNull(data) ==
    IF data # Null THEN NewWorkspace2(data) ELSE NewWorkspace2([roots |-> <<>>])

\* Workspace2.fromData
FromData(data) == IF data # Null THEN NewWorkspace2(data) ELSE Null

\* Workspace.getRoot(resource): a root of the workspace that holds the resource
\* (the resource's path starts with the root's path), if there is one
IsPrefix(s, t) == Len(s) <= Len(t) /\ SubSeq(t, 1, Len(s)) = s

WorkspaceGetRoot(roots, uri) ==
    LET holding == {i \in DOMAIN roots : IsPrefix(roots[i].path, uri.path)}
    IN IF holding = {} THEN Undefined
       ELSE roots[CHOOSE i \in holding : \A j \in holding : Len(roots[j].path) <= Len(roots[i].path)]

\* Workspace2.getRoot: the first folder whose uri string is the uri's
GetRoot(w, uri) ==
    LET root == WorkspaceGetRoot(w.roots, uri)
        hits == {i \in DOMAIN w.folders : UriToString(w.folders[i].uri) = UriToString(uri)}
    IN IF root # Undefined /\ hits # {}
       THEN w.folders[CHOOSE i \in hits : \A j \in hits : i <= j]
       ELSE Undefined

\* ------------------------------------------------------------- path helpers

\* paths.normalize: null and undefined as they are, '' becomes '.', "." segments
\* dropped and ".." resolved against the segment before it
RECURSIVE NormalizeSegs(_, _, _)
NormalizeSegs(abs, done, rest) ==
    IF rest = <<>> THEN done
    ELSE LET seg == Head(rest)
         IN IF seg = "." THEN NormalizeSegs(abs, done, Tail(rest))
            ELSE IF seg = ".."
            THEN IF done # <<>> /\ done[Len(done)] # ".."
                 THEN NormalizeSegs(abs, SubSeq(done, 1, Len(done) - 1), Tail(rest))
                 ELSE IF abs THEN NormalizeSegs(abs, done, Tail(rest))
                 ELSE NormalizeSegs(abs, Append(done, seg), Tail(rest))
            ELSE NormalizeSegs(abs, Append(done, seg), Tail(rest))

Normalize(p) ==
    IF p = Undefined THEN p
    ELSE IF p = EmptyString THEN DotString
    ELSE LET segs == NormalizeSegs(p.abs, <<>>, p.segs)
         IN IF segs = <<>> /\ ~p.abs THEN DotString ELSE Path(p.abs, segs)

\* path.relative(from, to) of two absolute paths: ".." for every segment of from
\* behind the common prefix, then the rest of to; '' when they are the same
RECURSIVE CommonLen(_, _)
CommonLen(s, t) ==
    IF s = <<>> \/ t = <<>> \/ Head(s) # Head(t) THEN 0
    ELSE 1 + CommonLen(Tail(s), Tail(t))

Relative(from, to) ==
    LET f == NormalizeSegs(TRUE, <<>>, from.segs)
        t == NormalizeSegs(TRUE, <<>>, to.segs)
        n == CommonLen(f, t)
    IN Path(FALSE, [i \in 1..(Len(f) - n) |-> ".."] \o SubSeq(t, n + 1, Len(t)))

\* the segment names that begin with the two characters '..': the parent
\* directory and a file or directory named ..a
DotDotNames == {"..", "..a"}

\* result.indexOf('..') === 0: the string begins with the characters '..'
StartsWithDotDot(p) == p.segs # <<>> /\ p.segs[1] \in DotDotNames

\* isFalsyOrEmpty, of the roots of a Workspace (always an array)
IsFalsyOrEmpty(arr) == Len(arr) = 0

\* ------------------------------------------------------------- queries

\* Array.prototype.slice(0): a new array object with the elements of arr, held in
\* a record so that it compares with undefined.  sameObject: the array is the
\* _workspace.folders object itself, so that a change of one is a change of both.
Slice0(arr) == [array |-> arr, sameObject |-> FALSE]

\* getWorkspaceFolders that returns this._workspace.folders without slice(0)
GetWorkspaceFoldersNoSlice(w) ==
    IF w = Null THEN Undefined ELSE [array |-> w.folders, sameObject |-> TRUE]

\* ExtHostWorkspace.getWorkspaceFolders: undefined, or the copy folders.slice(0)
GetWorkspaceFolders(w) == IF w = Null THEN Undefined ELSE Slice0(w.folders)

\* ExtHostWorkspace.getEnclosingWorkspaceFolder
GetEnclosingWorkspaceFolder(w, uri) == IF w = Null THEN Undefined ELSE GetRoot(w, uri)

\* getPath that reads the first of the folders, not the first of the roots
GetPathOfFirstFolder(w) ==
    IF w = Null THEN Undefined
    ELSE IF Len(w.folders) = 0 THEN Undefined
    ELSE FsPath(w.folders[1].uri)

\* ExtHostWorkspace.getPath
GetPath(w) ==
    IF w = Null THEN Undefined
    ELSE IF Len(w.roots) = 0 THEN Undefined
    ELSE FsPath(w.roots[1])

\* the loop of getRelativePath over the roots, in their order
RECURSIVE RelativeToFirst(_, _)
RelativeToFirst(roots, path) ==
    IF roots = <<>> THEN Normalize(path)
    ELSE LET result == Relative(FsPath(Head(roots)), path)
         IN IF result = EmptyString \/ StartsWithDotDot(result)
            THEN RelativeToFirst(Tail(roots), path)
            ELSE Normalize(result)

\* ExtHostWorkspace.getRelativePath: pathOrUri is a path string, a Uri or undefined
GetRelativePath(w, pathOrUri) ==
    LET path == IF pathOrUri \in Uris THEN FsPath(pathOrUri) ELSE pathOrUri
    IN IF path = Undefined \/ path = EmptyString THEN path
       ELSE IF w = Null \/ IsFalsyOrEmpty(w.roots) THEN Normalize(path)
       ELSE RelativeToFirst(w.roots, path)

\* ------------------------------------------------------------- workspace edits

\* a vscode.Range (zero-based lines and characters)
VsRange == [start |-> [line |-> 0, character |-> 0], end |-> [line |-> 0, character |-> 1]]

\* vscode.EndOfLine.LF and .CRLF
LF == [endOfLine |-> 1]
CRLF == [endOfLine |-> 2]

\* extHostTypeConverters.fromRange: the range in the one-based wire form
FromRange(range) ==
    [startLineNumber |-> range.start.line + 1,
     startColumn |-> range.start.character + 1,
     endLineNumber |-> range.end.line + 1,
     endColumn |-> range.end.character + 1]

\* extHostTypeConverters.EndOfLine.from: the EndOfLineSequence of an EndOfLine,
\* undefined for no EndOfLine
EndOfLineFrom(eol) ==
    IF eol = CRLF THEN [endOfLineSequence |-> 1]
    ELSE IF eol = LF THEN [endOfLineSequence |-> 0]
    ELSE Undefined

\* vscode.TextEdit: one without range and end of line, two with
TextEdits ==
    {[range |-> Undefined, newText |-> "x", newEol |-> Undefined],
     [range |-> VsRange, newText |-> "y", newEol |-> LF],
     [range |-> VsRange, newText |-> "x", newEol |-> CRLF]}

\* the number of text edits of a WorkspaceEdit
RECURSIVE TotalEdits(_)
TotalEdits(entries) ==
    IF entries = <<>> THEN 0 ELSE Len(Head(entries).edits) + TotalEdits(Tail(entries))

\* WorkspaceEdit.entries(): one [uri, edits] pair per resource, in the order the
\* resources were set; the resources are /a and /b
EditEntries ==
    {[uri |-> u, edits |-> e] : u \in {Uri(<<"a">>), Uri(<<"b">>)}, e \in SeqsUpTo(TextEdits, MaxEdits)}

WorkspaceEdits ==
    {entries \in SeqsUpTo(EditEntries, 2) :
        /\ TotalEdits(entries) <= MaxEdits
        /\ \A i, j \in DOMAIN entries : entries[i].uri = entries[j].uri => i = j}

\* the inner loop of appyEdit: one resource edit per text edit of a resource
EditsOfResource(uri, edits) ==
    [k \in 1..Len(edits) |->
        [resource |-> uri,
         newText |-> edits[k].newText,
         newEol |-> EndOfLineFrom(edits[k].newEol),
         range |-> IF edits[k].range = Undefined THEN Undefined ELSE FromRange(edits[k].range)]]

\* an inner loop that skips the text edits without a range
RECURSIVE ResourceEditsSkipRangeless(_)
ResourceEditsSkipRangeless(entries) ==
    IF entries = <<>> THEN <<>>
    ELSE EditsOfResource(Head(entries).uri,
                         SelectSeq(Head(entries).edits, LAMBDA e : e.range # Undefined))
             \o ResourceEditsSkipRangeless(Tail(entries))

\* the loops of appyEdit: resourceEdits, filled resource by resource
RECURSIVE ResourceEdits(_)
ResourceEdits(entries) ==
    IF entries = <<>> THEN <<>>
    ELSE EditsOfResource(Head(entries).uri, Head(entries).edits)
             \o ResourceEdits(Tail(entries))

\* ------------------------------------------------------------- state

VARIABLES
    workspace,       \* _workspace of instance 1: a Workspace2 or Null
    delivered,       \* what the subscriber of onDidChangeWorkspace last received, with
                     \* getWorkspaceFolders() and getPath() as it saw them on delivery
    nEvents,         \* change events fired by the emitter of instance 1
    nAccepts,        \* $acceptWorkspaceData calls received by instance 1
    prevData,        \* the data before curData (NoData before the constructor's)
    curData,         \* the data of the constructor or of the last accept
    subscriber,      \* the URI strings a subscriber holds that applies every event
    returned,        \* the last query of instance 1 and the value its caller holds
    requestIdPool,   \* static ExtHostWorkspace._requestIdPool
    calls,           \* the findFiles calls made, in order: instance and token
    listeners,       \* per token, the callbacks registered on onCancellationRequested
    cancelled,       \* the tokens that have fired
    done,            \* the calls whose remote search has completed
    outcomes,        \* per completed call, how the remote promise settled and how
                     \* the promise findFiles returned settled
    requests,        \* the saveAll and appyEdit calls made, in order, with the
                     \* settlement of the remote promise and of the returned one
    applied,         \* the WorkspaceEdit of the last appyEdit call and the list it
                     \* passed to $applyWorkspaceEdit
    proxyLog         \* the messages sent to the main thread, in order

wsVars == <<workspace, delivered, nEvents, nAccepts, prevData, curData, subscriber, returned>>
searchVars == <<requestIdPool, calls, listeners, cancelled, done, outcomes, requests, applied, proxyLog>>
vars == <<workspace, delivered, nEvents, nAccepts, prevData, curData, subscriber, returned,
          requestIdPool, calls, listeners, cancelled, done, outcomes, requests, applied, proxyLog>>

Inst == 1..NumInstances
Tokens == {[token |-> n] : n \in 1..NumTokens}

\* the URI strings of the folders of a workspace (none when no workspace is open)
StringsOf(w) ==
    IF w = Null THEN {} ELSE {UriToString(w.folders[i].uri) : i \in DOMAIN w.folders}

\* a subscriber of onDidChangeWorkspace that keeps a set of URI strings: it
\* removes the removed folders, then adds the added folders
ApplyEvent(held, event) ==
    (held \ {UriToString(event.removed[i].uri) : i \in DOMAIN event.removed})
        \cup {UriToString(event.added[i].uri) : i \in DOMAIN event.added}

\* constructor: _workspace = Workspace2.fromData(data); the static pool starts at 0;
\* the subscriber starts from the folders of the constructed instance
Init ==
    /\ \E data \in Data :
          /\ workspace = FromData(data)
          /\ curData = data
          /\ subscriber = StringsOf(FromData(data))
    /\ returned = NoResult
    /\ prevData = NoData
    /\ delivered = NoEvent
    /\ nEvents = 0
    /\ nAccepts = 0
    /\ requestIdPool = 0
    /\ calls = <<>>
    /\ listeners = [t \in Tokens |-> <<>>]
    /\ cancelled = {}
    /\ done = {}
    /\ outcomes = <<>>
    /\ requests = <<>>
    /\ applied = NoResult
    /\ proxyLog = <<>>

\* ------------------------------------------------------------- $acceptWorkspaceData

\* what a caller holds after _workspace is replaced: a copy is left alone; an
\* array that is the folders of the replaced workspace was sorted with them
\* (line 138) and is no longer the folders of the current workspace
AfterReplace(r) ==
    IF r # NoResult /\ r.fn = "getWorkspaceFolders" /\ r.value # Undefined /\ r.value.sameObject
    THEN [r EXCEPT !.value = Slice0(SortFolders(r.value.array))]
    ELSE r

\* folders.sort(...) of a workspace, [] for none (lines 138 and 141)
SortedRoots(w) == IF w # Null THEN SortFolders(w.folders) ELSE <<>>

\* a sort that numbers the folders again, by their place in the sorted array
SortedInPlaceRenumbered(w) ==
    IF w # Null
    THEN [w EXCEPT !.folders =
            [i \in DOMAIN w.folders |-> [SortFolders(w.folders)[i] EXCEPT !.index = i - 1]]]
    ELSE Null

\* folders.sort sorts the array it is called on and returns that array: the
\* workspace with its folders as the sort leaves them
SortedInPlace(w) == IF w # Null THEN [w EXCEPT !.folders = SortFolders(w.folders)] ELSE Null

\* $acceptWorkspaceData with the old folders read after _workspace is replaced
AcceptResultOldAfterReplace(w, data) ==
    LET next == FromData(data)
        oldRoots == SortedRoots(next)
        newRoots == SortedRoots(next)
        d == Delta(oldRoots, newRoots)
    IN [workspace |-> SortedInPlace(next),
        event |-> [added |-> d.added, removed |-> d.removed],
        atFire |-> SortedInPlace(next)]

\* $acceptWorkspaceData with the new folders left unsorted (line 141 without sort)
AcceptResultNewUnsorted(w, data) ==
    LET oldRoots == SortedRoots(w)
        next == FromData(data)
        newRoots == IF next # Null THEN next.folders ELSE <<>>
        d == Delta(oldRoots, newRoots)
    IN [workspace |-> next,
        event |-> [added |-> d.added, removed |-> d.removed],
        atFire |-> next]

\* $acceptWorkspaceData with the event fired before _workspace is replaced
AcceptResultFireBeforeReplace(w, data) ==
    LET oldRoots == SortedRoots(w)
        next == FromData(data)
        newRoots == SortedRoots(next)
        d == Delta(oldRoots, newRoots)
    IN [workspace |-> SortedInPlace(next),
        event |-> [added |-> d.added, removed |-> d.removed],
        atFire |-> SortedInPlace(w)]

\* $acceptWorkspaceData with delta(newRoots, oldRoots, ...): the arguments swapped
AcceptResultDeltaSwapped(w, data) ==
    LET oldRoots == SortedRoots(w)
        next == SortedInPlace(FromData(data))
        newRoots == IF next # Null THEN next.folders ELSE <<>>
        d == Delta(newRoots, oldRoots)
    IN [workspace |-> next,
        event |-> [added |-> d.added, removed |-> d.removed],
        atFire |-> next]

\* $acceptWorkspaceData(data) on _workspace = w: the _workspace it leaves, the
\* event it fires and the _workspace a listener sees while the event is fired
AcceptResult(w, data) ==
    LET oldRoots == SortedRoots(w)
        next == SortedInPlace(FromData(data))
        newRoots == IF next # Null THEN next.folders ELSE <<>>
        d == Delta(oldRoots, newRoots)
    IN [workspace |-> next,
        event |-> [added |-> d.added, removed |-> d.removed],
        atFire |-> next]

\* an emitter that fires only when a folder was added or removed
FireIfChanged(event, w) ==
    IF event.added = <<>> /\ event.removed = <<>>
    THEN UNCHANGED <<delivered, nEvents, subscriber>>
    ELSE /\ delivered' = [event |-> event,
                          folders |-> GetWorkspaceFolders(w),
                          path |-> GetPath(w)]
         /\ nEvents' = nEvents + 1
         /\ subscriber' = ApplyEvent(subscriber, event)

\* Emitter.fire(event): every call delivers one event to the subscriber, which
\* reads getWorkspaceFolders() and getPath() in its listener
Fire(event, w) ==
    /\ delivered' = [event |-> event,
                     folders |-> GetWorkspaceFolders(w),
                     path |-> GetPath(w)]
    /\ nEvents' = nEvents + 1
    /\ subscriber' = ApplyEvent(subscriber, event)

\* $acceptWorkspaceData that starts the request ids again from 0
AcceptWorkspaceDataResetPool(data) ==
    /\ nAccepts < MaxAccepts
    /\ LET r == AcceptResult(workspace, data)
       IN /\ workspace' = r.workspace
          /\ Fire(r.event, r.atFire)
    /\ nAccepts' = nAccepts + 1
    /\ prevData' = curData
    /\ curData' = data
    /\ returned' = AfterReplace(returned)
    /\ requestIdPool' = 0
    /\ UNCHANGED <<calls, listeners, cancelled, done, outcomes, requests, applied, proxyLog>>

AcceptWorkspaceData(data) ==
    /\ nAccepts < MaxAccepts
    /\ LET r == AcceptResult(workspace, data)
       IN /\ workspace' = r.workspace
          /\ Fire(r.event, r.atFire)
    /\ nAccepts' = nAccepts + 1
    /\ prevData' = curData
    /\ curData' = data
    /\ returned' = AfterReplace(returned)
    /\ UNCHANGED searchVars

\* ------------------------------------------------------------- queries and their callers

\* a query of instance 1 by name, with its argument (undefined when it takes none)
QueryResult(w, fn, arg) ==
    CASE fn = "getWorkspaceFolders" -> GetWorkspaceFolders(w)
      [] fn = "getPath" -> GetPath(w)
      [] fn = "getEnclosingWorkspaceFolder" -> GetEnclosingWorkspaceFolder(w, arg)
      [] fn = "getRelativePath" -> GetRelativePath(w, arg)

\* an extension calls a query and holds its value (edits: the number of accepts
\* received when the caller changed the value, none so far)
Query(fn, arg) ==
    /\ returned' = [fn |-> fn, arg |-> arg,
                    value |-> QueryResult(workspace, fn, arg), edits |-> {}]
    /\ UNCHANGED <<workspace, delivered, nEvents, nAccepts, prevData, curData, subscriber>>
    /\ UNCHANGED searchVars

\* a folder of the caller's own, not one of the workspace
ForeignFolder == [name |-> "b", uri |-> Uri(<<"a", "b">>), index |-> MaxRoots]

\* the caller adds an entry to an array, removes its last entry or reverses it
ListEdits == {"push", "pop", "reverse"}

EditList(arr, edit) ==
    CASE edit = "push" -> Append(arr, ForeignFolder)
      [] edit = "pop" -> SubSeq(arr, 1, Len(arr) - 1)
      [] edit = "reverse" -> [i \in DOMAIN arr |-> arr[Len(arr) + 1 - i]]

\* the caller of getWorkspaceFolders changes the array it was given, once; an
\* array that is the _workspace.folders object changes for the instance as well
MutateReturned(edit) ==
    /\ returned # NoResult
    /\ returned.fn = "getWorkspaceFolders"
    /\ returned.value # Undefined
    /\ returned.edits = {}
    /\ edit = "pop" => returned.value.array # <<>>
    /\ LET arr == EditList(returned.value.array, edit)
       IN /\ returned' = [returned EXCEPT !.value.array = arr, !.edits = {nAccepts}]
          /\ workspace' = IF returned.value.sameObject
                          THEN [workspace EXCEPT !.folders = arr]
                          ELSE workspace
    /\ UNCHANGED <<delivered, nEvents, nAccepts, prevData, curData, subscriber>>
    /\ UNCHANGED searchVars

\* ------------------------------------------------------------- search

\* findFiles with ++_requestIdPool in place of _requestIdPool++
FindFilesPreIncrement(i, token) ==
    /\ Len(calls) + Len(requests) < MaxCalls
    /\ token \notin cancelled
    /\ LET requestId == requestIdPool + 1
           call == Len(calls) + 1
       IN /\ requestIdPool' = requestIdPool + 1
          /\ proxyLog' = Append(proxyLog, [op |-> "$startSearch", inst |-> i,
                                           requestId |-> requestId, call |-> call,
                                           completed |-> FALSE])
          /\ listeners' = IF token # NoToken
                           THEN [listeners EXCEPT ![token] =
                                    Append(@, [inst |-> i, requestId |-> requestId, call |-> call])]
                           ELSE listeners
    /\ calls' = Append(calls, [inst |-> i, token |-> token])
    /\ UNCHANGED <<cancelled, done, outcomes, requests, applied>>
    /\ UNCHANGED wsVars

\* findFiles that registers the callback of a call without a token on token 1
FindFilesDefaultToken(i, token) ==
    /\ Len(calls) + Len(requests) < MaxCalls
    /\ token \notin cancelled
    /\ [token |-> 1] \notin cancelled
    /\ LET requestId == requestIdPool
           call == Len(calls) + 1
           used == IF token # NoToken THEN token ELSE [token |-> 1]
       IN /\ requestIdPool' = requestIdPool + 1
          /\ proxyLog' = Append(proxyLog, [op |-> "$startSearch", inst |-> i,
                                           requestId |-> requestId, call |-> call,
                                           completed |-> FALSE])
          /\ listeners' = [listeners EXCEPT ![used] =
                              Append(@, [inst |-> i, requestId |-> requestId, call |-> call])]
    /\ calls' = Append(calls, [inst |-> i, token |-> token])
    /\ UNCHANGED <<cancelled, done, outcomes, requests, applied>>
    /\ UNCHANGED wsVars

\* findFiles with a request id counter of the instance, not of the class
FindFilesOwnCounter(i, token) ==
    /\ Len(calls) + Len(requests) < MaxCalls
    /\ token \notin cancelled
    /\ LET requestId == Cardinality({k \in DOMAIN calls : calls[k].inst = i})
           call == Len(calls) + 1
       IN /\ requestIdPool' = requestIdPool + 1
          /\ proxyLog' = Append(proxyLog, [op |-> "$startSearch", inst |-> i,
                                           requestId |-> requestId, call |-> call,
                                           completed |-> FALSE])
          /\ listeners' = IF token # NoToken
                           THEN [listeners EXCEPT ![token] =
                                    Append(@, [inst |-> i, requestId |-> requestId, call |-> call])]
                           ELSE listeners
    /\ calls' = Append(calls, [inst |-> i, token |-> token])
    /\ UNCHANGED <<cancelled, done, outcomes, requests, applied>>
    /\ UNCHANGED wsVars

\* findFiles(include, exclude, maxResults, token) on instance i; include, exclude
\* and maxResults are handed on as they are.  The token is absent or has not
\* fired yet (a token that has fired runs new callbacks by a timer of its own).
FindFiles(i, token) ==
    /\ Len(calls) + Len(requests) < MaxCalls
    /\ token \notin cancelled
    /\ LET requestId == requestIdPool
           call == Len(calls) + 1
       IN /\ requestIdPool' = requestIdPool + 1
          /\ proxyLog' = Append(proxyLog, [op |-> "$startSearch", inst |-> i,
                                           requestId |-> requestId, call |-> call,
                                           completed |-> FALSE])
          /\ listeners' = IF token # NoToken
                           THEN [listeners EXCEPT ![token] =
                                    Append(@, [inst |-> i, requestId |-> requestId, call |-> call])]
                           ELSE listeners
    /\ calls' = Append(calls, [inst |-> i, token |-> token])
    /\ UNCHANGED <<cancelled, done, outcomes, requests, applied>>
    /\ UNCHANGED wsVars

\* callbacks that cancel the id allocated last, not the id of their own call
CancelMessagesLastId(callbacks) ==
    [k \in DOMAIN callbacks |->
        [op |-> "$cancelSearch", inst |-> callbacks[k].inst,
         requestId |-> requestIdPool - 1, call |-> callbacks[k].call,
         completed |-> callbacks[k].call \in done]]

\* the $cancelSearch messages the callbacks of a token send when it fires, each
\* with the requestId its closure holds (completed: the search had settled)
CancelMessages(callbacks) ==
    [k \in DOMAIN callbacks |->
        [op |-> "$cancelSearch", inst |-> callbacks[k].inst,
         requestId |-> callbacks[k].requestId, call |-> callbacks[k].call,
         completed |-> callbacks[k].call \in done]]

\* a cancellation token fires: its callbacks run in the order they were registered
CancelToken(token) ==
    /\ token \notin cancelled
    /\ cancelled' = cancelled \cup {token}
    /\ proxyLog' = proxyLog \o CancelMessages(listeners[token])
    /\ UNCHANGED <<requestIdPool, calls, listeners, done, outcomes, requests, applied>>
    /\ UNCHANGED wsVars

\* a completion that hands the request id back to the pool
CompleteSearchReleaseId(call, outcome) ==
    /\ call \notin done
    /\ done' = done \cup {call}
    /\ outcomes' = outcomes @@ (call :> [remote |-> outcome, caller |-> outcome])
    /\ requestIdPool' = requestIdPool - 1
    /\ UNCHANGED <<calls, listeners, cancelled, requests, applied, proxyLog>>
    /\ UNCHANGED wsVars

\* a search whose rejection reaches the caller as a resolved promise
CompleteSearchSwallowRejection(call, outcome) ==
    /\ call \notin done
    /\ done' = done \cup {call}
    /\ outcomes' = outcomes @@ (call :> [remote |-> outcome, caller |-> Resolved])
    /\ UNCHANGED <<requestIdPool, calls, listeners, cancelled, requests, applied, proxyLog>>
    /\ UNCHANGED wsVars

\* the promise of $startSearch of a call settles with an outcome of the main
\* thread; findFiles returned that promise itself (return result), so the
\* caller's promise settles with it
CompleteSearch(call, outcome) ==
    /\ call \notin done
    /\ done' = done \cup {call}
    /\ outcomes' = outcomes @@ (call :> [remote |-> outcome, caller |-> outcome])
    /\ UNCHANGED <<requestIdPool, calls, listeners, cancelled, requests, applied, proxyLog>>
    /\ UNCHANGED wsVars

\* ------------------------------------------------------------- saveAll and appyEdit

\* saveAll(includeUntitled) on instance i: undefined, true or false, handed on
SaveAllArgs == {Undefined, [bool |-> TRUE], [bool |-> FALSE]}

SaveAll(i, includeUntitled) ==
    /\ Len(calls) + Len(requests) < MaxCalls
    /\ requests' = Append(requests, [op |-> "saveAll", inst |-> i,
                                     remote |-> Pending, caller |-> Pending])
    /\ proxyLog' = Append(proxyLog, [op |-> "$saveAll", inst |-> i,
                                     request |-> Len(requests) + 1,
                                     arg |-> includeUntitled])
    /\ UNCHANGED <<requestIdPool, calls, listeners, cancelled, done, outcomes, applied>>
    /\ UNCHANGED wsVars

\* appyEdit(edit) on instance i
AppyEdit(i, edit) ==
    /\ Len(calls) + Len(requests) < MaxCalls
    /\ requests' = Append(requests, [op |-> "appyEdit", inst |-> i,
                                     remote |-> Pending, caller |-> Pending])
    /\ proxyLog' = Append(proxyLog, [op |-> "$applyWorkspaceEdit", inst |-> i,
                                     request |-> Len(requests) + 1])
    /\ applied' = [edit |-> edit, resourceEdits |-> ResourceEdits(edit)]
    /\ UNCHANGED <<requestIdPool, calls, listeners, cancelled, done, outcomes>>
    /\ UNCHANGED wsVars

\* the promise of $saveAll or $applyWorkspaceEdit of a call settles; the call
\* returned that promise itself
CompleteRequest(k, outcome) ==
    /\ requests[k].remote = Pending
    /\ requests' = [requests EXCEPT ![k].remote = outcome, ![k].caller = outcome]
    /\ UNCHANGED <<requestIdPool, calls, listeners, cancelled, done, outcomes, applied, proxyLog>>
    /\ UNCHANGED wsVars

\* ------------------------------------------------------------- specifications

Next ==
    \/ \E data \in Data : AcceptWorkspaceData(data)
    \/ \E fn \in {"getWorkspaceFolders", "getPath"} : Query(fn, Undefined)
    \/ \E uri \in Uris : Query("getEnclosingWorkspaceFolder", uri)
    \/ \E uri \in Uris : Query("getRelativePath", uri)
    \/ \E edit \in ListEdits : MutateReturned(edit)
    \/ \E i \in Inst, token \in Tokens \cup {NoToken} : FindFiles(i, token)
    \/ \E token \in Tokens : CancelToken(token)
    \/ \E call \in DOMAIN calls, outcome \in Outcomes : CompleteSearch(call, outcome)
    \/ \E i \in Inst, includeUntitled \in SaveAllArgs : SaveAll(i, includeUntitled)
    \/ \E i \in Inst, edit \in WorkspaceEdits : AppyEdit(i, edit)
    \/ \E k \in DOMAIN requests, outcome \in Outcomes : CompleteRequest(k, outcome)

Spec == Init /\ [][Next]_vars

NextWorkspace == \E data \in Data : AcceptWorkspaceData(data)

SpecWorkspace == Init /\ [][NextWorkspace]_vars

\* the accepts of instance 1, the callers of getWorkspaceFolders and what they
\* do with the arrays they are given, on workspaces of the roots /a and /b (null,
\* no root, one root, roots in and out of URI order, a root twice)
FolderData == {Null} \cup {[roots |-> r] : r \in SeqsUpTo({Uri(<<"a">>), Uri(<<"b">>)}, MaxRoots)}

NextFolders ==
    \/ \E data \in FolderData : AcceptWorkspaceData(data)
    \/ Query("getWorkspaceFolders", Undefined)
    \/ \E edit \in ListEdits : MutateReturned(edit)

InitFolders == Init /\ curData \in FolderData

SpecFolders == InitFolders /\ [][NextFolders]_vars

\* instances constructed without workspace data
InitSearch == Init /\ curData = Null

\* appyEdit on instance 1, with every WorkspaceEdit
NextEdit ==
    \/ \E edit \in WorkspaceEdits : AppyEdit(1, edit)
    \/ \E k \in DOMAIN requests, outcome \in Outcomes : CompleteRequest(k, outcome)

SpecEdit == InitSearch /\ [][NextEdit]_vars

\* the WorkspaceEdits of one resource with at most one text edit
SmallEdits == {e \in WorkspaceEdits : Len(e) = 1 /\ TotalEdits(e) <= 1}

\* the remote operations of instance 1: findFiles, saveAll and appyEdit, tokens
\* that fire and promises that settle
NextRemote ==
    \/ \E token \in Tokens \cup {NoToken} : FindFiles(1, token)
    \/ \E token \in Tokens : CancelToken(token)
    \/ \E call \in DOMAIN calls, outcome \in Outcomes : CompleteSearch(call, outcome)
    \/ \E includeUntitled \in SaveAllArgs : SaveAll(1, includeUntitled)
    \/ \E edit \in SmallEdits : AppyEdit(1, edit)
    \/ \E k \in DOMAIN requests, outcome \in Outcomes : CompleteRequest(k, outcome)

SpecRemote == InitSearch /\ [][NextRemote]_vars

\* every operation of instance 1, on a small choice of arguments: accepts of no
\* workspace and of the workspace of /a, the four queries, findFiles without a
\* token and with a token, saveAll, appyEdit of one edit, tokens that fire and
\* promises that settle
BridgeData == {Null, [roots |-> <<Uri(<<"a">>)>>]}

BridgeQueries ==
    {[fn |-> "getWorkspaceFolders", arg |-> Undefined],
     [fn |-> "getPath", arg |-> Undefined],
     [fn |-> "getEnclosingWorkspaceFolder", arg |-> Uri(<<"a">>)],
     [fn |-> "getRelativePath", arg |-> Path(TRUE, <<"a", "b">>)]}

BridgeEdit == <<[uri |-> Uri(<<"a">>), edits |-> <<CHOOSE e \in TextEdits : e.range = Undefined>>]>>

NextBridge ==
    \/ \E data \in BridgeData : AcceptWorkspaceData(data)
    \/ \E q \in BridgeQueries : Query(q.fn, q.arg)
    \/ \E token \in {NoToken, [token |-> 1]} : FindFiles(1, token)
    \/ CancelToken([token |-> 1])
    \/ \E call \in DOMAIN calls, outcome \in Outcomes : CompleteSearch(call, outcome)
    \/ SaveAll(1, Undefined)
    \/ AppyEdit(1, BridgeEdit)
    \/ \E k \in DOMAIN requests, outcome \in Outcomes : CompleteRequest(k, outcome)

SpecBridge == InitSearch /\ [][NextBridge]_vars

\* the search operations alone
NextSearch ==
    \/ \E i \in Inst, token \in Tokens \cup {NoToken} : FindFiles(i, token)
    \/ \E token \in Tokens : CancelToken(token)
    \/ \E call \in DOMAIN calls, outcome \in Outcomes : CompleteSearch(call, outcome)

SpecSearch == InitSearch /\ [][NextSearch]_vars

\* the search operations interleaved with accepts of data without roots (null
\* and an empty root list): what the search state can see of an accept; the
\* searches resolve (SpecSearch has the searches that are rejected)
RootlessData == {Null, [roots |-> <<>>]}

NextInterleaved ==
    \/ \E data \in RootlessData : AcceptWorkspaceData(data)
    \/ \E i \in Inst, token \in Tokens \cup {NoToken} : FindFiles(i, token)
    \/ \E token \in Tokens : CancelToken(token)
    \/ \E call \in DOMAIN calls : CompleteSearch(call, Resolved)

SpecInterleaved == InitSearch /\ [][NextInterleaved]_vars

\* ------------------------------------------------------------- properties

\* the root list of a data value (none for null and before the constructor)
RootsOf(data) == IF data = Null \/ data = NoData THEN <<>> ELSE data.roots

\* the folders a snapshot of these roots is constructed with
FoldersOf(roots) == NewWorkspace2([roots |-> roots]).folders

FolderUris(folders) == [i \in DOMAIN folders |-> folders[i].uri]

\* canonical URI strings of a list of URIs
UriStrings(uris) == {UriToString(uris[i]) : i \in DOMAIN uris}

\* how often a canonical URI string occurs in a list of URIs
Count(uris, str) == Cardinality({i \in DOMAIN uris : UriToString(uris[i]) = str})

NoRepeatedRoot(uris) == \A i, j \in DOMAIN uris : UriToString(uris[i]) = UriToString(uris[j]) => i = j

Monus(m, n) == IF m > n THEN m - n ELSE 0

\* the permutations of a list
Reorderings(list) ==
    {[i \in DOMAIN list |-> list[p[i]]] :
        p \in {q \in [DOMAIN list -> DOMAIN list] : \A i, j \in DOMAIN list : q[i] = q[j] => i = j}}

\* the data value with its roots replaced
WithRoots(data, roots) == IF data = Null \/ data = NoData THEN Null ELSE [roots |-> roots]

\* the old list A and the new list B of the last $acceptWorkspaceData
OldRootList == RootsOf(prevData)
NewRootList == RootsOf(curData)

\* the added and removed URIs of the last event are the same whatever the order
\* of the roots of the old and of the new list
OrderIndependent ==
    \A a \in Reorderings(OldRootList), b \in Reorderings(NewRootList) :
        LET r == AcceptResult(FromData(WithRoots(prevData, a)), WithRoots(curData, b))
        IN /\ FolderUris(r.event.added) = FolderUris(delivered.event.added)
           /\ FolderUris(r.event.removed) = FolderUris(delivered.event.removed)

\* added = the folders of B with a URI string not in A, removed = the folders of
\* A with a URI string not in B
SetDifference ==
    /\ Range(delivered.event.added) =
          {f \in Range(FoldersOf(NewRootList)) : UriToString(f.uri) \notin UriStrings(OldRootList)}
    /\ Range(delivered.event.removed) =
          {f \in Range(FoldersOf(OldRootList)) : UriToString(f.uri) \notin UriStrings(NewRootList)}

\* added holds folders of B, removed folders of A, and each URI string as often
\* as it occurs more often in the one list than in the other
CountedDifference ==
    /\ Range(delivered.event.added) \subseteq Range(FoldersOf(NewRootList))
    /\ Range(delivered.event.removed) \subseteq Range(FoldersOf(OldRootList))
    /\ \A u \in Uris :
          LET str == UriToString(u)
          IN /\ Count(FolderUris(delivered.event.added), str) =
                   Monus(Count(NewRootList, str), Count(OldRootList, str))
             /\ Count(FolderUris(delivered.event.removed), str) =
                   Monus(Count(OldRootList, str), Count(NewRootList, str))

\* C1 as stated: for every old list A and new list B, the event of
\* $acceptWorkspaceData has added = the folders of B whose URI string is not in A
\* and removed = the folders of A whose URI string is not in B, whatever the
\* order of the roots of A and of B.
C1_SetDifferenceForEveryList ==
    nAccepts >= 1 => SetDifference /\ OrderIndependent

\* C1 amended: when no root occurs twice in A or in B, added and removed are the
\* set differences B \ A and A \ B by URI string; for every A and B, added holds
\* folders of B and removed folders of A, a URI string being added (removed) as
\* often as it occurs more often in B than in A (in A than in B); and the added
\* and removed URIs do not depend on the order of the roots of A and of B.
C1_DifferenceByUriString ==
    nAccepts >= 1 =>
        /\ CountedDifference
        /\ OrderIndependent
        /\ (NoRepeatedRoot(OldRootList) /\ NoRepeatedRoot(NewRootList) => SetDifference)

\* C1 witness: an accept of an unsorted list of two roots over a non-empty old
\* list, with a folder added and a folder removed
C1_Witness ==
    /\ nAccepts >= 1
    /\ delivered # NoEvent
    /\ delivered.event.added # <<>>
    /\ delivered.event.removed # <<>>
    /\ Len(NewRootList) = 2
    /\ Compare(UriToString(NewRootList[1]), UriToString(NewRootList[2])) > 0

\* C2: every $acceptWorkspaceData fires exactly one change event, also when
\* added and removed are empty: the events fired are as many as the accept calls,
\* and the constructor fires none.
C2_OneEventPerAccept ==
    /\ nEvents = nAccepts
    /\ (nAccepts = 0 => delivered = NoEvent)
    /\ (nAccepts >= 1 => delivered # NoEvent)

\* C2 witness: a second accept whose event has nothing added and nothing removed
C2_Witness ==
    /\ nAccepts = 2
    /\ nEvents = 2
    /\ delivered # NoEvent
    /\ delivered.event.added = <<>>
    /\ delivered.event.removed = <<>>

\* C3 as stated: whenever a workspace is open, folders and roots have the same
\* length and folders[i].uri = roots[i], folders[i].index = i for every i.
C3_FoldersFollowRoots ==
    workspace # Null =>
        /\ Len(workspace.folders) = Len(workspace.roots)
        /\ \A i \in DOMAIN workspace.folders :
              /\ workspace.folders[i].uri = workspace.roots[i]
              /\ workspace.folders[i].index = i - 1

\* the positions of the $startSearch and of the $cancelSearch messages
Starts == {m \in DOMAIN proxyLog : proxyLog[m].op = "$startSearch"}
Cancels == {m \in DOMAIN proxyLog : proxyLog[m].op = "$cancelSearch"}

\* C4: the request ids that successive findFiles calls of one instance pass to
\* $startSearch are integers that strictly increase, none used twice, whatever
\* accepts, cancellations and completions happen in between.
C4_RequestIdsIncrease ==
    /\ \A m \in Starts : proxyLog[m].requestId \in Nat
    /\ \A m, n \in Starts :
          (m < n /\ proxyLog[m].inst = proxyLog[n].inst)
              => proxyLog[m].requestId < proxyLog[n].requestId

\* C4 witness: two findFiles calls of one instance with a $cancelSearch sent
\* between them, a completed search and an accept
C4_Witness ==
    /\ nAccepts >= 1
    /\ done # {}
    /\ \E m, n \in Starts, c \in Cancels :
          /\ m < c /\ c < n
          /\ proxyLog[m].inst = proxyLog[n].inst

\* C5: when the token given to a findFiles call fires, one $cancelSearch is
\* sent that carries the request id this call passed to $startSearch, whether
\* or not the search has completed, and never the id of another call; no
\* $cancelSearch is sent for a call whose token has not fired.
C5_CancelCarriesOwnId ==
    /\ \A c \in Cancels :
          /\ calls[proxyLog[c].call].token \in cancelled
          /\ \E m \in Starts :
                /\ proxyLog[m].call = proxyLog[c].call
                /\ proxyLog[m].requestId = proxyLog[c].requestId
                /\ proxyLog[m].inst = proxyLog[c].inst
                /\ m < c
          /\ \A m \in Starts :
                proxyLog[m].call # proxyLog[c].call
                    => proxyLog[m].requestId # proxyLog[c].requestId
    /\ \A k \in DOMAIN calls :
          calls[k].token \in cancelled
              => Cardinality({c \in Cancels : proxyLog[c].call = k}) = 1

\* C5 witness: two calls with different tokens; the token of the one fired after
\* its search had completed, the token of the other has not fired
C5_Witness ==
    \E j, k \in DOMAIN calls :
        /\ j # k
        /\ calls[j].token # NoToken /\ calls[k].token # NoToken
        /\ calls[j].token # calls[k].token
        /\ calls[k].token \notin cancelled
        /\ \E c \in Cancels : proxyLog[c].call = j /\ proxyLog[c].completed

\* C6: a second $acceptWorkspaceData with the data of the call before it fires
\* an event with nothing added and nothing removed, for every data value.
C6_SameDataEmptyEvent ==
    (nAccepts >= 2 /\ curData = prevData)
        => delivered.event.added = <<>> /\ delivered.event.removed = <<>>

\* C6 witness: two accepts in a row of the same unsorted list of two roots
C6_Witness ==
    /\ nAccepts >= 2
    /\ curData = prevData
    /\ Len(NewRootList) = 2
    /\ Compare(UriToString(NewRootList[1]), UriToString(NewRootList[2])) > 0
    /\ delivered # NoEvent
    /\ delivered.event.added = <<>>

\* the arguments getRelativePath and getEnclosingWorkspaceFolder are tried on
QueryPaths ==
    {Undefined, EmptyString,
     Path(TRUE, <<"a">>), Path(TRUE, <<"a", ".", "b">>), Path(TRUE, <<"b", "..", "a">>),
     Path(TRUE, <<"a", "b">>), Path(FALSE, <<"a">>), Path(FALSE, <<".", "a">>),
     Path(TRUE, <<"b", "a">>), Path(TRUE, <<"a", "b", "a">>), Path(TRUE, <<"a", "..a">>)} \cup Uris

\* the path string of an argument of getRelativePath
PathOf(pathOrUri) == IF pathOrUri \in Uris THEN FsPath(pathOrUri) ELSE pathOrUri

NoWorkspaceQueries ==
    /\ GetWorkspaceFolders(workspace) = Undefined
    /\ GetPath(workspace) = Undefined
    /\ \A u \in Uris : GetEnclosingWorkspaceFolder(workspace, u) = Undefined

\* C7 as stated: with no workspace open, getWorkspaceFolders,
\* getEnclosingWorkspaceFolder and getPath return undefined and
\* getRelativePath(p) returns the normalized p.
C7_NormalizedForEveryPath ==
    curData = Null =>
        /\ NoWorkspaceQueries
        /\ \A p \in QueryPaths : GetRelativePath(workspace, p) = Normalize(PathOf(p))

\* C7 amended: with no workspace open, getWorkspaceFolders,
\* getEnclosingWorkspaceFolder and getPath return undefined, and getRelativePath(p)
\* returns the normalized p for every non-empty p and returns an empty or absent
\* p as it is, not normalized.
C7_NoWorkspaceQueries ==
    curData = Null =>
        /\ NoWorkspaceQueries
        /\ \A p \in QueryPaths :
              GetRelativePath(workspace, p) =
                  IF PathOf(p) = EmptyString \/ PathOf(p) = Undefined
                  THEN PathOf(p)
                  ELSE Normalize(PathOf(p))

\* C7 witness: no workspace open after an accept of null on an open workspace
C7_Witness ==
    /\ nAccepts >= 1
    /\ curData = Null
    /\ workspace = Null
    /\ prevData # Null /\ prevData # NoData
    /\ Len(prevData.roots) >= 1

\* an open workspace again, by an accept, after no workspace was open
C7_WitnessReopened ==
    /\ nAccepts >= 1
    /\ prevData = Null
    /\ workspace # Null

\* the $startSearch messages that are the first of their instance
FirstStarts ==
    {m \in Starts : \A n \in Starts : proxyLog[n].inst = proxyLog[m].inst => m <= n}

\* C8 as stated: the first findFiles call of every instance allocates request
\* id 0, and the $cancelSearch of its token carries 0, also when other
\* instances have called findFiles before.
C8_FirstIdIsZero ==
    \A m \in FirstStarts :
        /\ proxyLog[m].requestId = 0
        /\ \A c \in Cancels : proxyLog[c].call = proxyLog[m].call => proxyLog[c].requestId = 0

\* C8 amended: the first findFiles call of an instance allocates the number of
\* findFiles calls made before it by all instances of the process (0 when it
\* is the first call of the process), and the $cancelSearch of its token carries
\* that number.
C8_FirstIdCountsEarlierCalls ==
    \A m \in FirstStarts :
        LET earlier == Cardinality({n \in Starts : n < m})
        IN /\ proxyLog[m].requestId = earlier
           /\ \A c \in Cancels :
                 proxyLog[c].call = proxyLog[m].call => proxyLog[c].requestId = earlier

\* C8 witness: the first call of the process and the first call of another
\* instance after it, both cancelled
C8_Witness ==
    \E m, n \in FirstStarts, c, d \in Cancels :
        /\ m < n
        /\ proxyLog[c].call = proxyLog[m].call /\ proxyLog[c].requestId = 0
        /\ proxyLog[d].call = proxyLog[n].call /\ proxyLog[d].requestId = 1

\* C9: when a change event is delivered, getWorkspaceFolders and getPath answer
\* from the new snapshot alone, and the event is the difference between the data
\* accepted before and the data of this call; the calls take effect in order.
C9_DeliveredAfterReplace ==
    nAccepts >= 1 =>
        /\ delivered.path =
              (IF NewRootList = <<>> THEN Undefined ELSE FsPath(NewRootList[1]))
        /\ (curData = Null => delivered.folders = Undefined)
        /\ (curData # Null =>
              /\ delivered.folders # Undefined
              /\ Len(delivered.folders.array) = Len(NewRootList)
              /\ Range(delivered.folders.array) = Range(FoldersOf(NewRootList)))
        /\ delivered.folders = GetWorkspaceFolders(workspace)
        /\ delivered.path = GetPath(workspace)
        /\ CountedDifference

\* C9 witness: a second accept that changes the first root and the folders
C9_Witness ==
    /\ nAccepts = 2
    /\ OldRootList # <<>> /\ NewRootList # <<>>
    /\ OldRootList[1] # NewRootList[1]
    /\ delivered # NoEvent
    /\ delivered.event.added # <<>>
    /\ delivered.event.removed # <<>>
    /\ delivered.path = FsPath(NewRootList[1])

\* C10 as stated: in every event, no two folders of added and no two folders
\* of removed have the same URI string, also for lists with a repeated root.
C10_NoDuplicatesForEveryList ==
    nAccepts >= 1 =>
        /\ NoRepeatedRoot(FolderUris(delivered.event.added))
        /\ NoRepeatedRoot(FolderUris(delivered.event.removed))

\* C10 amended: no two folders of added have the same URI string when no root
\* occurs twice in the new list, and no two folders of removed when no root
\* occurs twice in the old list; for every list, a URI string occurs in added at
\* most as often as in the new list and in removed at most as often as in the old.
C10_NoDuplicatesFromDistinctRoots ==
    nAccepts >= 1 =>
        /\ NoRepeatedRoot(NewRootList) => NoRepeatedRoot(FolderUris(delivered.event.added))
        /\ NoRepeatedRoot(OldRootList) => NoRepeatedRoot(FolderUris(delivered.event.removed))
        /\ \A u \in Uris :
              /\ Count(FolderUris(delivered.event.added), UriToString(u))
                    <= Count(NewRootList, UriToString(u))
              /\ Count(FolderUris(delivered.event.removed), UriToString(u))
                    <= Count(OldRootList, UriToString(u))

\* C10 witness: two folders added and two removed, from lists without a repeated root
C10_Witness ==
    /\ nAccepts >= 1
    /\ delivered # NoEvent
    /\ NoRepeatedRoot(NewRootList) /\ NoRepeatedRoot(OldRootList)
    /\ Len(delivered.event.added) >= 1
    /\ Len(delivered.event.removed) >= 1
    /\ Len(NewRootList) = 2 /\ Len(OldRootList) = 2

\* C11: getWorkspaceFolders returns undefined exactly when no workspace is open,
\* and what a caller does to an array it was given reaches neither the folders
\* a later call returns (those of the current data, as the constructor or the
\* last accept left them) nor the event of a later accept (the difference of
\* the folders of the data before and after it).
C11_ReturnedListIsACopy ==
    /\ (GetWorkspaceFolders(workspace) = Undefined) <=> (curData = Null)
    /\ curData # Null =>
          GetWorkspaceFolders(workspace).array =
              IF nAccepts = 0 THEN FoldersOf(curData.roots)
              ELSE SortFolders(FoldersOf(curData.roots))
    /\ nAccepts > 0 =>
          delivered.event = AcceptResult(FromData(prevData), curData).event

\* C11 witness: a caller changed the array it was given, the instance then
\* received an accept that removed a folder, and a workspace is still open
C11_Witness ==
    /\ returned # NoResult
    /\ returned.fn = "getWorkspaceFolders"
    /\ \E n \in returned.edits : n < nAccepts
    /\ delivered # NoEvent
    /\ delivered.event.removed # <<>>
    /\ workspace # Null
    /\ returned.value.array # workspace.folders

\* the $saveAll and $applyWorkspaceEdit messages of the k-th saveAll or appyEdit call
RequestMessages(k) ==
    {m \in DOMAIN proxyLog :
        /\ proxyLog[m].op \in {"$saveAll", "$applyWorkspaceEdit"}
        /\ proxyLog[m].request = k}

RemoteOp(op) == IF op = "saveAll" THEN "$saveAll" ELSE "$applyWorkspaceEdit"

\* one remote call per call, and the caller's promise settled as the remote one
OneCallAndItsOutcome ==
    /\ \A call \in DOMAIN calls :
          /\ Cardinality({m \in Starts : proxyLog[m].call = call}) = 1
          /\ call \in done <=> call \in DOMAIN outcomes
          /\ call \in done =>
                /\ outcomes[call].remote \in Outcomes
                /\ outcomes[call].caller = outcomes[call].remote
    /\ \A k \in DOMAIN requests :
          /\ Cardinality(RequestMessages(k)) = 1
          /\ \A m \in RequestMessages(k) :
                /\ proxyLog[m].op = RemoteOp(requests[k].op)
                /\ proxyLog[m].inst = requests[k].inst
          /\ requests[k].caller = requests[k].remote

\* a token that fires changes no promise and no field of the instance
TokenChangesNothingLocal ==
    cancelled' # cancelled =>
        UNCHANGED <<workspace, delivered, nEvents, requestIdPool, calls, done, outcomes, requests>>

\* C12: every findFiles call sends one $startSearch and no second one, also after
\* a rejection or a cancellation; the promise the caller holds settles exactly as
\* the remote promise; a cancellation token that fires changes neither a
\* settlement nor the instance's fields; every saveAll and appyEdit call sends
\* one remote call and its promise settles exactly as the remote one.
C12_RemoteOutcomeUnchanged ==
    []OneCallAndItsOutcome /\ [][TokenChangesNothingLocal]_vars

\* C12 witness: a search rejected after its token fired while it was in flight,
\* and a saveAll or appyEdit call that was rejected
C12_Witness ==
    /\ \E c \in Cancels :
          /\ ~proxyLog[c].completed
          /\ proxyLog[c].call \in done
          /\ outcomes[proxyLog[c].call].caller = Rejected
    /\ \E k \in DOMAIN requests : requests[k].caller = Rejected

\* the absolute paths and the URIs among the arguments
AbsoluteQueries == {p \in QueryPaths : p \in Uris \/ (p # Undefined /\ p.abs)}

\* a relative path that begins with a parent-directory traversal
BeginsWithTraversal(p) == p.segs # <<>> /\ p.segs[1] = ".."

\* the normalized relative path of the first root that has a non-empty one
\* without a leading traversal, the normalized path when no root has
RECURSIVE FirstQualifying(_, _)
FirstQualifying(roots, path) ==
    IF roots = <<>> THEN Normalize(path)
    ELSE LET rel == Relative(FsPath(Head(roots)), path)
         IN IF rel # EmptyString /\ ~BeginsWithTraversal(rel)
            THEN Normalize(rel)
            ELSE FirstQualifying(Tail(roots), path)

\* C13 as stated: with at least one root, getRelativePath(path) is the normalized
\* relative path of the first root, in the order of the roots, whose
\* relative(root, path) is non-empty and does not begin with a parent-directory
\* traversal, and the normalized path when there is no such root; roots
\* [/a, /b] and path /b/a give a; of nested roots the earlier one wins.
C13_FirstRootHoldingThePath ==
    (workspace # Null /\ Len(workspace.roots) >= 1) =>
        /\ \A p \in AbsoluteQueries :
              GetRelativePath(workspace, p) = FirstQualifying(workspace.roots, PathOf(p))
        /\ workspace.roots = <<Uri(<<"a">>), Uri(<<"b">>)>> =>
              GetRelativePath(workspace, Path(TRUE, <<"b", "a">>)) = Path(FALSE, <<"a">>)
        /\ workspace.roots = <<Uri(<<"a">>), Uri(<<"a", "b">>)>> =>
              GetRelativePath(workspace, Path(TRUE, <<"a", "b", "a">>)) = Path(FALSE, <<"b", "a">>)

PlacesOf(uri) ==
    {i \in DOMAIN workspace.roots : UriToString(workspace.roots[i]) = UriToString(uri)}

\* C15: on an open workspace getEnclosingWorkspaceFolder(uri) returns, for a uri
\* whose string is that of a root, a folder with that URI string whose index is
\* a place of that root in the root list, and undefined for a uri whose string
\* is that of no root; after the constructor and after every accept.
C15_FolderOfRootUri ==
    workspace # Null =>
        \A uri \in Uris :
            LET folder == GetEnclosingWorkspaceFolder(workspace, uri)
            IN IF PlacesOf(uri) = {}
               THEN folder = Undefined
               ELSE /\ folder # Undefined
                    /\ UriToString(folder.uri) = UriToString(uri)
                    /\ folder.index + 1 \in PlacesOf(uri)

\* C15 witness: after an accept of two roots out of URI-string order, the folder
\* returned for the second root is the first of the folders and has index 1
C15_Witness ==
    /\ nAccepts >= 1
    /\ workspace # Null
    /\ Len(workspace.roots) = 2
    /\ workspace.roots[1] # workspace.roots[2]
    /\ GetEnclosingWorkspaceFolder(workspace, workspace.roots[2]) = workspace.folders[1]
    /\ workspace.folders[1].index = 1
    /\ \E uri \in Uris : GetEnclosingWorkspaceFolder(workspace, uri) = Undefined

\* the number of text edits of the resources before the i-th
EditsBefore(entries, i) == TotalEdits(SubSeq(entries, 1, i - 1))

\* C16: the list appyEdit passes to $applyWorkspaceEdit has one record per text
\* edit of the WorkspaceEdit, the records of a resource behind those of the
\* resources enumerated before it and in the order of its edits, each with the
\* resource, text, end of line and range of its edit; the record of an edit
\* without a range has no range.
C16_OneRecordPerEditInOrder ==
    applied # NoResult =>
        LET entries == applied.edit
            list == applied.resourceEdits
        IN /\ Len(list) = TotalEdits(entries)
           /\ \A i \in DOMAIN entries : \A k \in DOMAIN entries[i].edits :
                 LET record == list[EditsBefore(entries, i) + k]
                     edit == entries[i].edits[k]
                 IN /\ record.resource = entries[i].uri
                    /\ record.newText = edit.newText
                    /\ record.newEol = EndOfLineFrom(edit.newEol)
                    /\ record.range = IF edit.range = Undefined
                                      THEN Undefined
                                      ELSE FromRange(edit.range)

\* C16 witness: a WorkspaceEdit of two resources whose first edit has no range
\* and whose second has one, passed to $applyWorkspaceEdit
C16_Witness ==
    /\ applied # NoResult
    /\ Len(applied.edit) = 2
    /\ Len(applied.edit[1].edits) = 1
    /\ Len(applied.edit[2].edits) = 1
    /\ applied.edit[1].edits[1].range = Undefined
    /\ applied.edit[2].edits[1].range # Undefined
    /\ Len(applied.resourceEdits) = 2
    /\ \E m \in DOMAIN proxyLog : proxyLog[m].op = "$applyWorkspaceEdit"

\* the request ids of the searches in flight: started and not settled
InFlightIds ==
    {[call |-> proxyLog[m].call, requestId |-> proxyLog[m].requestId] :
        m \in {n \in Starts : proxyLog[n].call \notin done}}

\* a step of findFiles, saveAll, appyEdit, of a token that fires or of a remote
\* call that completes: it leaves the workspace alone and fires no event
RemoteStepLeavesWorkspace ==
    (calls' # calls \/ requests' # requests \/ cancelled' # cancelled
        \/ done' # done \/ proxyLog' # proxyLog)
    => UNCHANGED <<workspace, nEvents, delivered, subscriber>>

\* a step of $acceptWorkspaceData or of a query: it leaves the counter, the ids of
\* the searches in flight and the ids the token callbacks hold alone
LocalStepLeavesIds ==
    (nAccepts' # nAccepts \/ returned' # returned)
    => /\ requestIdPool' = requestIdPool
       /\ InFlightIds' = InFlightIds
       /\ listeners' = listeners

\* C17: findFiles, saveAll, appyEdit, a cancellation token that fires and a
\* remote call that completes leave the workspace of the instance as it is and
\* fire no change event; $acceptWorkspaceData and the queries leave the request
\* id counter and the id of every search in flight as they are.
C17_RemoteAndLocalStateApart ==
    [][RemoteStepLeavesWorkspace /\ LocalStepLeavesIds]_vars

\* C17 witness: an open workspace after an accept, a query answered, a search in
\* flight whose token has fired and a saveAll or appyEdit call that has settled
C17_Witness ==
    /\ nAccepts >= 1
    /\ workspace # Null
    /\ returned # NoResult
    /\ InFlightIds # {}
    /\ \E c \in Cancels : proxyLog[c].call \notin done
    /\ \E k \in DOMAIN requests : requests[k].remote \in Outcomes

\* C18 as stated: a subscriber that starts from the folders held at
\* construction and applies every change event holds, after every accept, exactly
\* the URI strings of the folders of the current workspace (none when no
\* workspace is open).
C18_SubscriberHoldsFolderSet == subscriber = StringsOf(workspace)

\* an accept from a root list to a root list, neither listing a URI string twice,
\* takes a subscriber that holds the old folder set to the new folder set
DistinctRootsKeepSubscriber ==
    (/\ nAccepts' # nAccepts
     /\ subscriber = StringsOf(workspace)
     /\ NoRepeatedRoot(RootsOf(curData))
     /\ NoRepeatedRoot(RootsOf(curData')))
    => subscriber' = StringsOf(workspace')

\* C18 amended: the subscriber holds exactly the URI strings of the folders of
\* the current workspace after every accept as long as no root list handed to
\* the constructor or to an accept has listed a URI string twice: every accept
\* between two such lists takes the exact old set to the exact new set.
C18_SubscriberOfDistinctRoots == [][DistinctRootsKeepSubscriber]_vars

\* C18 witness: a second accept between root lists without repeated URI that
\* removes a folder and adds one, after which the subscriber holds the new set
C18_Witness ==
    /\ nAccepts = 2
    /\ NoRepeatedRoot(OldRootList) /\ NoRepeatedRoot(NewRootList)
    /\ delivered # NoEvent
    /\ delivered.event.added # <<>>
    /\ delivered.event.removed # <<>>
    /\ subscriber # {}
    /\ subscriber = StringsOf(workspace)

\* C19: every $cancelSearch(id) is behind a $startSearch(id) of a findFiles call
\* that was given a token, and no $cancelSearch carries the call or the id of a
\* findFiles call that was given no token.
C19_CancelOnlyAfterStartWithToken ==
    /\ \A c \in Cancels :
          \E m \in Starts :
              /\ m < c
              /\ proxyLog[m].requestId = proxyLog[c].requestId
              /\ calls[proxyLog[m].call].token # NoToken
    /\ \A m \in Starts :
          calls[proxyLog[m].call].token = NoToken =>
              \A c \in Cancels :
                  /\ proxyLog[c].call # proxyLog[m].call
                  /\ proxyLog[c].requestId # proxyLog[m].requestId

\* C19 witness: a findFiles call without a token, then one with a token, then
\* the $cancelSearch of the second
C19_Witness ==
    /\ Len(calls) = 2
    /\ calls[1].token = NoToken
    /\ calls[2].token # NoToken
    /\ \E c \in Cancels : proxyLog[c].call = 2

\* C20: no two $startSearch messages of the process carry the same request id,
\* whatever instances sent them, and a $cancelSearch carries the id of a search
\* of the instance that sent it, never that of a search of another instance.
C20_IdsDistinctAcrossInstances ==
    /\ \A m, n \in Starts : m # n => proxyLog[m].requestId # proxyLog[n].requestId
    /\ \A c \in Cancels : \A m \in Starts :
          proxyLog[m].requestId = proxyLog[c].requestId =>
              proxyLog[m].inst = proxyLog[c].inst

\* C20 witness: searches of two instances, the first search of each, and a
\* $cancelSearch sent by one of them
C20_Witness ==
    /\ \E m, n \in Starts : proxyLog[m].inst # proxyLog[n].inst
    /\ \E c \in Cancels : \E m \in Starts :
          /\ proxyLog[m].inst # proxyLog[c].inst
          /\ m < c

====
